---- MODULE Spec2Model ----
(***************************************************************************)
(* A model of pygrister's configuration resolver (config.py), its call     *)
(* dispatcher (apicaller.py) and the safe-mode guard (api.py).             *)
(*                                                                         *)
(* Python strings are sequences of one-character strings, so that          *)
(* emptiness, concatenation and int() parsing are computed, not assumed.   *)
(* Python dicts are functions from a finite set of keys.                   *)
(***************************************************************************)
EXTENDS Integers, Sequences, FiniteSets, TLC

VARIABLES
    config,        \* Configurator.config
    server,        \* Configurator.server
    raise_option,  \* Configurator.raise_option
    safemode,      \* Configurator.safemode
    cfg_exc,       \* the exception the last Configurator call raised, "" if none
    environ,       \* os.environ, restricted to the names the model sets
    home_file,     \* ~/.gristapi/config.json: [exists, content]
    phase,         \* "new" before Configurator.__init__ returned, "live" after
    last,          \* SpecConfig's record of the step just taken: [op, arg, pre]
    apicalls,      \* ApiCaller.apicalls
    ok,            \* ApiCaller.ok
    dry_run,       \* ApiCaller.dry_run
    request,       \* ApiCaller.request: None or the last prepared request
    response,      \* ApiCaller.response: None or the last response
    session,       \* ApiCaller.session: None or the open Session object
    nsessions,     \* number of Session objects created so far; they are numbered
    closed,        \* the Session objects that were closed
    th,            \* per thread: position in the running GristApi operation, its
                   \* locals, and what it has done so far
    calls,         \* number of operations invoked so far
    done           \* outcome of the operation that just finished, None while one runs

cfgVars == <<config, server, raise_option, safemode, cfg_exc>>
envVars == <<environ, home_file>>
callerVars == <<apicalls, ok, dry_run, request, response>>
sessVars == <<session, nsessions, closed>>
runVars == <<th, calls, done>>
vars == <<config, server, raise_option, safemode, cfg_exc, environ, home_file, phase, last,
          apicalls, ok, dry_run, request, response, session, nsessions, closed,
          th, calls, done>>

----------------------------------------------------------------------------
(* String literals                                                         *)

Y == <<"Y">>
N == <<"N">>
EmptyStr == <<>>
EmptyDict == [k \in {} |-> EmptyStr]
None == <<>>          \* Python's None, for an optional value
Some(x) == <<x>>      \* an optional value that is set

\* config.py:10-23
PYGRISTER_CONFIG ==
    [GRIST_API_KEY |-> <<"<","y","o","u","r","_","a","p","i","_","k","e","y",
                         "_","h","e","r","e",">">>,
     GRIST_SELF_MANAGED |-> N,
     GRIST_SELF_MANAGED_HOME |-> <<"h","t","t","p",":","/","/","l","o","c","a","l",
                                   "h","o","s","t",":","8","4","8","4">>,
     GRIST_SELF_MANAGED_SINGLE_ORG |-> Y,
     GRIST_SERVER_PROTOCOL |-> <<"h","t","t","p","s",":","/","/">>,
     GRIST_API_SERVER |-> <<"g","e","t","g","r","i","s","t",".","c","o","m">>,
     GRIST_API_ROOT |-> <<"a","p","i">>,
     GRIST_TEAM_SITE |-> <<"d","o","c","s">>,
     GRIST_WORKSPACE_ID |-> <<"0">>,
     GRIST_DOC_ID |-> <<"<","y","o","u","r","_","d","o","c","_","i","d","_",
                        "h","e","r","e",">">>,
     GRIST_RAISE_ERROR |-> Y,
     GRIST_SAFEMODE |-> N]

----------------------------------------------------------------------------
(* Python primitives                                                       *)

\* dict.update: the keys of u are added or overwritten, the others kept
DictUpdate(d, u) ==
    [k \in (DOMAIN d) \cup (DOMAIN u) |-> IF k \in DOMAIN u THEN u[k] ELSE d[k]]

Digits == {"0","1","2","3","4","5","6","7","8","9"}
Whitespace == {" "}

RECURSIVE LStrip(_)
LStrip(s) == IF s /= <<>> /\ s[1] \in Whitespace THEN LStrip(Tail(s)) ELSE s

RECURSIVE RStrip(_)
RStrip(s) ==
    IF s /= <<>> /\ s[Len(s)] \in Whitespace
    THEN RStrip(SubSeq(s, 1, Len(s) - 1)) ELSE s

\* the digit part of an int literal: digits, single underscores between digits
DigitPart(s) ==
    /\ s /= <<>>
    /\ \A i \in 1..Len(s) : s[i] \in Digits \cup {"_"}
    /\ s[1] \in Digits /\ s[Len(s)] \in Digits
    /\ \A i \in 1..(Len(s) - 1) : ~(s[i] = "_" /\ s[i + 1] = "_")

\* int(s) of a str does not raise ValueError
IntCastable(s) ==
    LET t == RStrip(LStrip(s))
        u == IF t /= <<>> /\ t[1] \in {"+", "-"} THEN Tail(t) ELSE t
    IN DigitPart(u)

----------------------------------------------------------------------------
(* Configurator (config.py)                                                *)

\* a get_config that reads the environment before the home file, so that the
\* file wins
get_config_file_last ==
    LET defaults == PYGRISTER_CONFIG
        fromenv == [k \in DOMAIN defaults |->
                      IF k \in DOMAIN environ THEN environ[k] ELSE defaults[k]]
    IN IF home_file.exists THEN DictUpdate(fromenv, home_file.content) ELSE fromenv

\* Configurator.get_config: defaults, then the home file if it is a file,
\* then, for every key collected so far, the environment variable of that name
get_config ==
    LET defaults == PYGRISTER_CONFIG
        merged == IF home_file.exists
                  THEN DictUpdate(defaults, home_file.content)
                  ELSE defaults
    IN [k \in DOMAIN merged |-> IF k \in DOMAIN environ THEN environ[k] ELSE merged[k]]

\* all(self.config.values()): the empty string is the only falsy str
all_values(cfg) == \A k \in DOMAIN cfg : cfg[k] /= EmptyStr

\* a make_server that puts the team in the single-org url as well
make_server_teamed(cf, team_name) ==
    LET the_team == IF team_name /= EmptyStr THEN team_name ELSE cf.GRIST_TEAM_SITE
    IN IF cf.GRIST_SELF_MANAGED = N
       THEN cf.GRIST_SERVER_PROTOCOL \o the_team \o <<".">>
            \o cf.GRIST_API_SERVER \o <<"/">> \o cf.GRIST_API_ROOT
       ELSE cf.GRIST_SELF_MANAGED_HOME \o <<"/","o","/">> \o the_team
            \o <<"/">> \o cf.GRIST_API_ROOT

\* Configurator.make_server
make_server(cf, team_name) ==
    LET the_team == IF team_name /= EmptyStr THEN team_name ELSE cf.GRIST_TEAM_SITE
    IN IF cf.GRIST_SELF_MANAGED = N
       THEN cf.GRIST_SERVER_PROTOCOL \o the_team \o <<".">>
            \o cf.GRIST_API_SERVER \o <<"/">> \o cf.GRIST_API_ROOT
       ELSE IF cf.GRIST_SELF_MANAGED_SINGLE_ORG = Y
            THEN cf.GRIST_SELF_MANAGED_HOME \o <<"/">> \o cf.GRIST_API_ROOT
            ELSE cf.GRIST_SELF_MANAGED_HOME \o <<"/","o","/">> \o the_team
                 \o <<"/">> \o cf.GRIST_API_ROOT

\* a _post_reconfig without the int() check of lines 113-117
post_reconfig_raises_noint(cfg) ==
    \/ DOMAIN cfg = {}
    \/ ~all_values(cfg)

\* Configurator._post_reconfig raises GristApiNotConfigured (lines 109-117)
post_reconfig_raises(cfg) ==
    \/ DOMAIN cfg = {}
    \/ ~all_values(cfg)
    \/ ~IntCastable(cfg.GRIST_WORKSPACE_ID)

\* Configurator._post_reconfig, run on the configuration just stored: a raise
\* leaves the derived fields as they were
post_reconfig(cfg) ==
    IF post_reconfig_raises(cfg)
    THEN /\ cfg_exc' = "GristApiNotConfigured"
         /\ UNCHANGED <<server, raise_option, safemode>>
    ELSE /\ cfg_exc' = ""
         /\ server' = make_server(cfg, EmptyStr)
         /\ raise_option' = (cfg.GRIST_RAISE_ERROR = Y)
         /\ safemode' = (cfg.GRIST_SAFEMODE = Y)

\* a reconfig that updates self.config in place instead of rebuilding it
reconfig_config_inplace(cur, overrides) ==
    DictUpdate(DictUpdate(cur, get_config), overrides)

\* the dict reconfig stores in self.config (lines 85-87); cur is self.config
\* before the call
reconfig_config(cur, overrides) == DictUpdate(get_config, overrides)

\* an update_config that reads the static sources again before the patch
update_config_config_reread(cur, patch) ==
    DictUpdate(DictUpdate(cur, get_config), patch)

\* the dict update_config leaves in self.config (line 105)
update_config_config(cur, patch) == DictUpdate(cur, patch)

\* str() of a non-negative int: its decimal digits
RECURSIVE str_int(_)
str_int(n) ==
    LET d == <<"0","1","2","3","4","5","6","7","8","9">>[(n % 10) + 1]
    IN IF n < 10 THEN <<d>> ELSE str_int(n \div 10) \o <<d>>

\* an apikey2output that hides nothing
apikey2output_plain(apikey) == apikey

\* apikey2output (config.py:25-28): keys of fewer than 5 characters come back
\* as they are
apikey2output(apikey) ==
    LET klen == Len(apikey)
    IN IF klen < 5 THEN apikey
       ELSE SubSeq(apikey, 1, 2) \o <<"<">> \o str_int(klen - 4) \o <<">">>
            \o SubSeq(apikey, klen - 1, klen)

\* what config2output returns for the empty dict (config.py:63-64)
EmptyOutput == <<"{","<","e","m","p","t","y",">","}">>

\* Configurator.config2output (config.py:61-68): str() or pformat() of a copy
\* whose GRIST_API_KEY went through apikey2output; the text is kept as the
\* map of the items it shows
config2output(cfg) ==
    IF DOMAIN cfg = {} THEN EmptyOutput
    ELSE DictUpdate(cfg,
            [k \in {"GRIST_API_KEY"} |->
                apikey2output(IF "GRIST_API_KEY" \in DOMAIN cfg
                              THEN cfg.GRIST_API_KEY ELSE EmptyStr)])

\* a config2output that masks the key in the dict it was given
config2output_arg_inplace(cfg) ==
    IF DOMAIN cfg = {} THEN cfg
    ELSE DictUpdate(cfg,
            [k \in {"GRIST_API_KEY"} |->
                apikey2output(IF "GRIST_API_KEY" \in DOMAIN cfg
                              THEN cfg.GRIST_API_KEY ELSE EmptyStr)])

\* the dict passed to config2output, after the call: the function works on
\* dict(config) (config.py:65)
config2output_arg(cfg) == cfg

\* apikey2output called on the key now configured
Apikey2Output ==
    /\ phase = "live"
    /\ last' = [op |-> "apikey2output", arg |-> config.GRIST_API_KEY,
                res |-> apikey2output(config.GRIST_API_KEY)]
    /\ UNCHANGED <<cfgVars, envVars, phase, callerVars, sessVars, runVars>>

\* Configurator.config2output(d); d may be self.config itself, as in the
\* message of _post_reconfig (config.py:110)
Config2Output(d) ==
    /\ phase = "live"
    /\ last' = [op |-> "config2output", arg |-> d, after |-> config2output_arg(d),
                res |-> config2output(d)]
    /\ config' = IF d = config THEN config2output_arg(d) ELSE config
    /\ UNCHANGED <<server, raise_option, safemode, cfg_exc, envVars, phase,
                   callerVars, sessVars, runVars>>

\* the fields Configurator.__init__ sets before it calls reconfig (lines 33-36)
NewConfigurator ==
    /\ config = EmptyDict
    /\ server = EmptyStr
    /\ raise_option = TRUE
    /\ safemode = FALSE
    /\ cfg_exc = ""

\* Configurator.__init__: an exception leaves no object behind
Construct(overrides) ==
    /\ phase = "new"
    /\ LET cfg == reconfig_config(config, overrides)
       IN IF post_reconfig_raises(cfg)
          THEN /\ cfg_exc' = "GristApiNotConfigured"
               /\ UNCHANGED <<config, server, raise_option, safemode, phase>>
          ELSE /\ config' = cfg
               /\ post_reconfig(cfg)
               /\ phase' = "live"
    /\ UNCHANGED <<envVars, callerVars, sessVars, runVars>>

\* Configurator.reconfig
Reconfig(overrides) ==
    /\ phase = "live"
    /\ LET cfg == reconfig_config(config, overrides)
       IN /\ config' = cfg
          /\ post_reconfig(cfg)
    /\ UNCHANGED <<phase, envVars, callerVars, sessVars, runVars>>

\* Configurator.update_config
UpdateConfig(patch) ==
    /\ phase = "live"
    /\ LET cfg == update_config_config(config, patch)
       IN /\ config' = cfg
          /\ post_reconfig(cfg)
    /\ UNCHANGED <<phase, envVars, callerVars, sessVars, runVars>>

\* GristApi.__init__ (api.py:112-126), seen from the live Configurator c:
\* custom_configurator says that c is passed as custom_configurator,
\* custom_apicaller that an ApiCaller built on c is passed as custom_apicaller.
\* Only the two custom objects together raise at once (lines 113-115); with
\* no custom configurator a Configurator() is built from the static sources
\* (line 117); config, if given, goes through update_config of the
\* configurator the new object ends up with (lines 125-126), which is c
\* unless neither custom object was passed.
GristApiInit(cfg_arg, custom_configurator, custom_apicaller) ==
    /\ phase = "live"
    /\ IF custom_apicaller /\ custom_configurator
       THEN /\ cfg_exc' = "GristApiNotConfigured"
            /\ UNCHANGED <<config, server, raise_option, safemode>>
       ELSE IF ~custom_configurator /\ post_reconfig_raises(get_config)
       THEN /\ cfg_exc' = "GristApiNotConfigured"
            /\ UNCHANGED <<config, server, raise_option, safemode>>
       ELSE IF cfg_arg = None
       THEN /\ cfg_exc' = ""
            /\ UNCHANGED <<config, server, raise_option, safemode>>
       ELSE IF custom_configurator \/ custom_apicaller
       THEN LET cfg == update_config_config(config, cfg_arg[1])
            IN /\ config' = cfg
               /\ post_reconfig(cfg)
       ELSE /\ cfg_exc' = IF post_reconfig_raises(update_config_config(get_config, cfg_arg[1]))
                          THEN "GristApiNotConfigured" ELSE ""
            /\ UNCHANGED <<config, server, raise_option, safemode>>
    /\ UNCHANGED <<phase, envVars, callerVars, sessVars, runVars>>

\* Configurator.make_server called by the user: it assigns nothing
MakeServer(team_name) ==
    /\ phase = "live"
    /\ UNCHANGED <<cfgVars, envVars, phase, callerVars, sessVars, runVars>>

\* what Configurator.select_params returns (config.py:145-150)
select_params(doc_id, team_id) ==
    [doc |-> IF doc_id /= EmptyStr THEN doc_id ELSE config.GRIST_DOC_ID,
     server |-> IF team_id = EmptyStr THEN server ELSE make_server(config, team_id)]

\* a select_params that keeps the url it built for the override in self.server
SelectParams_caches(doc_id, team_id) ==
    /\ phase = "live"
    /\ server' = IF team_id = EmptyStr THEN server ELSE make_server(config, team_id)
    /\ UNCHANGED <<config, raise_option, safemode, cfg_exc, envVars, phase,
                   callerVars, sessVars, runVars>>

\* Configurator.select_params: it assigns nothing
SelectParams(doc_id, team_id) ==
    /\ phase = "live"
    /\ UNCHANGED <<cfgVars, envVars, phase, callerVars, sessVars, runVars>>

\* the process environment and the home file change under the program
SetEnv(k, v) ==
    /\ environ' = DictUpdate(environ, [x \in {k} |-> v])
    /\ environ' /= environ
    /\ UNCHANGED <<cfgVars, home_file, phase, callerVars, sessVars, runVars>>

UnsetEnv(k) ==
    /\ k \in DOMAIN environ
    /\ environ' = [x \in (DOMAIN environ) \ {k} |-> environ[x]]
    /\ UNCHANGED <<cfgVars, home_file, phase, callerVars, sessVars, runVars>>

WriteFile(content) ==
    /\ home_file' = [exists |-> TRUE, content |-> content]
    /\ home_file' /= home_file
    /\ UNCHANGED <<cfgVars, environ, phase, callerVars, sessVars, runVars>>

RemoveFile ==
    /\ home_file.exists
    /\ home_file' = [exists |-> FALSE, content |-> EmptyDict]
    /\ UNCHANGED <<cfgVars, environ, phase, callerVars, sessVars, runVars>>

----------------------------------------------------------------------------
(* GristApi operations (api.py): one representative per shape              *)

\* apicall_filename and apicall_upload_files are calls of ApiCaller.apicall
\* itself, with method='PUT', an Authorization header of the caller's, and
\* filename or upload_files set; upload_attachment is the deprecated
\* operation that calls upload_attachments (api.py:1356-1367)
Ops == {"list_workspaces", "download_csv", "add_workspace",
        "add_service_account", "update_service_account", "upload_attachments",
        "apicall_filename", "apicall_upload_files",
        "upload_attachment", "update_attachment_store", "transfer_attachments"}

\* the operations decorated with @check_safemode
Guarded(op) == op \in {"add_workspace", "add_service_account",
                       "update_service_account", "upload_attachments",
                       "upload_attachment"}

\* the operations that ask the server to change something: those above and
\* the two POSTs of api.py:1475-1491 and 1507-1516
Mutating(op) == op \in {"add_workspace", "add_service_account",
                        "update_service_account", "upload_attachments",
                        "upload_attachment", "update_attachment_store",
                        "transfer_attachments"}

\* which optional argument of apicall the operation sets
Mode(op) ==
    CASE op \in {"download_csv", "apicall_filename"} -> "download"
      [] op \in {"upload_attachments", "upload_attachment",
                 "apicall_upload_files"} -> "upload"
      [] OTHER -> "ordinary"

\* the method argument the operation passes to apicall
Method(op) ==
    CASE op \in {"add_workspace", "add_service_account", "upload_attachments",
                 "upload_attachment", "update_attachment_store",
                 "transfer_attachments"} -> "POST"
      [] op = "update_service_account" -> "PATCH"
      [] op \in {"apicall_filename", "apicall_upload_files"} -> "PUT"
      [] OTHER -> "GET"

\* the headers argument the operation passes to apicall, None for none
Headers(op) ==
    CASE op = "download_csv" -> Some([Accept |-> <<"t","e","x","t","/","c","s","v">>])
      [] op \in {"upload_attachments", "upload_attachment"} -> Some(EmptyDict)
      [] op \in {"apicall_filename", "apicall_upload_files"} ->
           Some([Authorization |-> <<"B","a","s","i","c"," ","x">>])
      [] OTHER -> None

\* apicaller.py:98-102: the default headers when the caller gave none, and
\* in any case the Authorization header of the configured key
Bearer == <<"B","e","a","r","e","r"," ">>
DefaultHeaders ==
    [Content_Type |-> <<"a","p","p","l","i","c","a","t","i","o","n","/","j","s","o","n">>,
     Accept |-> <<"a","p","p","l","i","c","a","t","i","o","n","/","j","s","o","n">>]

\* a caller's Authorization header is kept and the key added only if missing
request_headers_setdefault(headers, key) ==
    LET hs == IF headers = None THEN DefaultHeaders ELSE headers[1]
    IN DictUpdate([Authorization |-> Bearer \o key], hs)

request_headers(headers, key) ==
    LET hs == IF headers = None THEN DefaultHeaders ELSE headers[1]
    IN DictUpdate(hs, [Authorization |-> Bearer \o key])

\* HTTP statuses the server answers with; Response.ok is status < 400
Statuses == {200, 404}
Bodies == {"empty", "json", "text"}
response_ok(resp) == resp.status < 400

\* what the dry-run branch of apicall returns (apicaller.py:116)
DryRunStatus == 200
DryRunResult == [st |-> DryRunStatus, res |-> "sentinel"]

\* the exit code the command-line front-end reserves for a failed call
\* (cli.py:176), and the statuses its dispatcher answers a transport
\* failure with (cli.py:96-98)
BADCALL == 3
CONN_ERROR == 523
CONN_TIMEOUT == 522
CONN_MISC_ERROR == 520

\* saved is the stack of dry_run_status locals of the wrappers entered in safe
\* mode; nest counts the guarded operations called from the operation's body
IdleThread ==
    [pc |-> "idle", op |-> "", call |-> 0, guard |-> FALSE, saved |-> <<>>,
     exc |-> "", ret |-> None, dry |-> FALSE, sent |-> 0, got |-> FALSE,
     wrote |-> FALSE, apicalls0 |-> 0, ok0 |-> FALSE, dry0 |-> FALSE,
     flag0 |-> FALSE, key0 |-> EmptyStr, preps |-> 0, sess |-> 0,
     sess0 |-> None, nsessions0 |-> 0, nest |-> 0, cli |-> FALSE,
     caught |-> "", exit |-> 0, overlap |-> FALSE, base0 |-> FALSE,
     safe0 |-> FALSE]

Main == "main"
Worker == "worker"
Threads == {Main, Worker}

\* an exception unwinds to the end of the operation (the wrapper's finally)
Raise(t, e) == th' = [th EXCEPT ![t].exc = e, ![t].pc = "unwind"]
Goto(t, pc) == th' = [th EXCEPT ![t].pc = pc]

----------------------------------------------------------------------------
(* Bounds and inputs                                                       *)

MaxCalls == 2        \* operations invoked in one run
MaxPatchKeys == 1    \* keys in one overrides / patch dictionary
MaxSessions == 2     \* Session objects open_session may create in one run

AllIdle == \A t \in Threads : th[t].pc = "idle"

----------------------------------------------------------------------------
(* check_safemode (api.py:55-69) around an operation, and                  *)
(* ApiCaller.apicall (apicaller.py:88-130), statement by statement         *)

\* a GristApi operation is called: the wrapper of a guarded one starts at
\* line 59, an unguarded one at its own body.
\* cli says that the caller is a command of the command-line front-end,
\* whose GristApi is built on a _CliApiCaller (cli.py:168-169). The record
\* notes what the call found: overlap, whether another thread's call is
\* running, base0, dry_run as it was before the first of the overlapping
\* calls, safe0, what the configuration map says of safe mode
InvokeVia(t, op, cli) ==
    /\ phase = "live"
    /\ th[t].pc = "idle"
    /\ calls < MaxCalls
    /\ calls' = calls + 1
    /\ LET running == {u \in Threads : th[u].pc /= "idle"}
           mine ==
             [IdleThread EXCEPT !.pc = IF Guarded(op) THEN "guard_check" ELSE "funct",
                                !.op = op, !.call = calls + 1,
                                !.apicalls0 = apicalls,
                                !.ok0 = ok, !.dry0 = dry_run,
                                !.flag0 = (config.GRIST_RAISE_ERROR = Y),
                                !.key0 = config.GRIST_API_KEY,
                                !.sess0 = session,
                                !.nsessions0 = nsessions,
                                !.cli = cli,
                                !.overlap = (running /= {}),
                                !.base0 = IF running = {} THEN dry_run
                                          ELSE th[CHOOSE u \in running : TRUE].base0,
                                !.safe0 = (config.GRIST_SAFEMODE = Y)]
       IN th' = [u \in Threads |->
                   IF u = t THEN mine
                   ELSE IF u \in running THEN [th[u] EXCEPT !.overlap = TRUE]
                   ELSE th[u]]
    /\ done' = None
    /\ UNCHANGED <<cfgVars, envVars, sessVars, phase, last, callerVars>>

\* a GristApi operation called by a program
Invoke(t, op) == InvokeVia(t, op, FALSE)

\* a GristApi operation called by a command of the command-line front-end
CliInvoke(t, op) == InvokeVia(t, op, TRUE)

\* api.py:59  if self.configurator.safemode
GuardCheck(t) ==
    /\ th[t].pc = "guard_check"
    /\ IF safemode THEN Goto(t, "guard_save") ELSE Goto(t, "funct")
    /\ UNCHANGED <<cfgVars, envVars, sessVars, phase, last, callerVars, calls, done>>

\* api.py:60  dry_run_status = self.apicaller.dry_run
GuardSave(t) ==
    /\ th[t].pc = "guard_save"
    /\ th' = [th EXCEPT ![t].saved = Append(@, dry_run), ![t].pc = "guard_set"]
    /\ UNCHANGED <<cfgVars, envVars, sessVars, phase, last, callerVars, calls, done>>

\* a guard that forgets line 61 and leaves dry_run as it found it
GuardSet_keeps(t) ==
    /\ th[t].pc = "guard_set"
    /\ UNCHANGED dry_run
    /\ th' = [th EXCEPT ![t].guard = TRUE, ![t].pc = "funct"]
    /\ UNCHANGED <<cfgVars, envVars, sessVars, phase, last, apicalls, ok, request, response,
                   calls, done>>

\* api.py:61  self.apicaller.dry_run = True
GuardSet(t) ==
    /\ th[t].pc = "guard_set"
    /\ dry_run' = TRUE
    /\ th' = [th EXCEPT ![t].guard = TRUE, ![t].pc = "funct"]
    /\ UNCHANGED <<cfgVars, envVars, sessVars, phase, last, apicalls, ok, request, response,
                   calls, done>>

\* the operation's body up to its call of apicall; upload_attachments resets
\* the diagnostics and opens its files first (api.py:1379-1381);
\* upload_attachment calls upload_attachments, whose wrapper starts at line
\* 59 again (api.py:1367)
Funct(t) ==
    /\ th[t].pc = "funct"
    /\ IF th[t].op = "upload_attachment" /\ th[t].nest = 0
       THEN /\ UNCHANGED <<request, response>>
            /\ th' = [th EXCEPT ![t].nest = 1, ![t].pc = "guard_check"]
       ELSE IF th[t].op \in {"upload_attachments", "upload_attachment"}
       THEN /\ request' = None
            /\ response' = None
            /\ \E opened \in BOOLEAN :
                 IF opened THEN Goto(t, "ac_reset") ELSE Raise(t, "OSError")
       ELSE /\ UNCHANGED <<request, response>>
            /\ Goto(t, "ac_reset")
    /\ UNCHANGED <<cfgVars, envVars, sessVars, phase, last, apicalls, ok, dry_run,
                   calls, done>>

\* an apicall without lines 96-97: the diagnostics are only ever overwritten
ApicallReset_keeps(t) ==
    /\ th[t].pc = "ac_reset"
    /\ UNCHANGED <<request, response>>
    /\ Goto(t, "ac_prepare")
    /\ UNCHANGED <<cfgVars, envVars, sessVars, phase, last, apicalls, ok, dry_run,
                   calls, done>>

\* apicaller.py:96-97
ApicallReset(t) ==
    /\ th[t].pc = "ac_reset"
    /\ request' = None
    /\ response' = None
    /\ Goto(t, "ac_prepare")
    /\ UNCHANGED <<cfgVars, envVars, sessVars, phase, last, apicalls, ok, dry_run,
                   calls, done>>

\* an apicall that always takes the caller's method
sent_method_asked(mode, method) == method

\* the method apicall puts in the request (apicaller.py:105-109)
sent_method(mode, method) ==
    IF mode = "download" THEN "GET"
    ELSE IF mode = "upload" THEN "POST"
    ELSE method

\* a dispatcher that never looks at self.session
session_for_call_fresh == nsessions + 1

\* apicaller.py:112  session = self.session or Session()
session_for_call == IF session /= None THEN session[1] ELSE nsessions + 1

\* apicaller.py:98-113: headers, method, Request, the session, prepare_request;
\* preparing raises for arguments Requests rejects (an invalid url, an
\* unserialisable body)
ApicallPrepare(t) ==
    /\ th[t].pc = "ac_prepare"
    /\ nsessions' = IF session_for_call > nsessions THEN nsessions + 1 ELSE nsessions
    /\ \E accepted \in BOOLEAN :
         IF accepted
         THEN /\ request' = Some([call |-> th[t].call,
                                  mode |-> Mode(th[t].op),
                                  method |-> sent_method(Mode(th[t].op), Method(th[t].op)),
                                  headers |-> request_headers(Headers(th[t].op),
                                                              config.GRIST_API_KEY)])
              /\ th' = [th EXCEPT ![t].preps = @ + 1, ![t].sess = session_for_call,
                                  ![t].pc = "ac_dry"]
         ELSE /\ UNCHANGED request
              /\ th' = [th EXCEPT ![t].preps = @ + 1, ![t].sess = session_for_call,
                                  ![t].exc = "InvalidURL", ![t].pc = "unwind"]
    /\ UNCHANGED <<cfgVars, envVars, session, closed, phase, last, apicalls, ok,
                   dry_run, response, calls, done>>

\* an apicall without lines 114-116: it goes on to send whatever dry_run says
ApicallDryRun_sends(t) ==
    /\ th[t].pc = "ac_dry"
    /\ Goto(t, "ac_send")
    /\ UNCHANGED <<cfgVars, envVars, sessVars, phase, last, callerVars, calls, done>>

\* a dry-run branch that reports failure: self.ok = False at line 115
ApicallDryRun_notok(t) ==
    /\ th[t].pc = "ac_dry"
    /\ IF dry_run
       THEN /\ ok' = FALSE
            /\ th' = [th EXCEPT ![t].ret = Some(DryRunResult), ![t].dry = TRUE,
                                ![t].pc = "post"]
       ELSE /\ UNCHANGED ok
            /\ Goto(t, "ac_send")
    /\ UNCHANGED <<cfgVars, envVars, sessVars, phase, last, apicalls, dry_run, request, response,
                   calls, done>>

\* apicaller.py:114-116
ApicallDryRun(t) ==
    /\ th[t].pc = "ac_dry"
    /\ IF dry_run
       THEN /\ ok' = TRUE
            /\ th' = [th EXCEPT ![t].ret = Some(DryRunResult), ![t].dry = TRUE,
                                ![t].pc = "post"]
       ELSE /\ UNCHANGED ok
            /\ Goto(t, "ac_send")
    /\ UNCHANGED <<cfgVars, envVars, sessVars, phase, last, apicalls, dry_run, request, response,
                   calls, done>>

\* a send that answers a transport failure by preparing the request again
ApicallSend_retries(t) ==
    /\ th[t].pc = "ac_send"
    /\ \/ \E st \in Statuses, b \in Bodies :
            /\ response' = Some([call |-> request[1].call, status |-> st, body |-> b])
            /\ th' = [th EXCEPT ![t].sent = @ + 1, ![t].got = TRUE, ![t].pc = "ac_count"]
       \/ /\ UNCHANGED response
          /\ th' = [th EXCEPT ![t].sent = @ + 1, ![t].pc = "ac_prepare"]
    /\ UNCHANGED <<cfgVars, envVars, sessVars, phase, last, apicalls, ok, dry_run, request,
                   calls, done>>

\* apicaller.py:118  self.response = session.send(self.request, **req_opts):
\* the server answers, or the transport raises and nothing is assigned; the
\* request sent is the one self.request holds now, and None, left there by
\* another thread's line 96, has none of a request's attributes
ApicallSend(t) ==
    /\ th[t].pc = "ac_send"
    /\ IF request = None
       THEN /\ UNCHANGED response
            /\ Raise(t, "AttributeError")
       ELSE \/ \E st \in Statuses, b \in Bodies :
                 /\ response' = Some([call |-> request[1].call, status |-> st, body |-> b])
                 /\ th' = [th EXCEPT ![t].sent = @ + 1, ![t].got = TRUE,
                                     ![t].pc = "ac_count"]
            \/ \E e \in {"Timeout", "ConnectionError"} :
                 /\ UNCHANGED response
                 /\ th' = [th EXCEPT ![t].sent = @ + 1, ![t].exc = e, ![t].pc = "unwind"]
    /\ UNCHANGED <<cfgVars, envVars, sessVars, phase, last, apicalls, ok, dry_run, request,
                   calls, done>>

\* an apicall that sets ok only after raise_for_status let the response through
ApicallCount_afterraise(t) ==
    /\ th[t].pc = "ac_count"
    /\ apicalls' = apicalls + 1
    /\ ok' = IF raise_option /\ ~response_ok(response[1]) THEN ok
             ELSE response_ok(response[1])
    /\ Goto(t, "ac_raise")
    /\ UNCHANGED <<cfgVars, envVars, sessVars, phase, last, dry_run, request, response,
                   calls, done>>

\* apicaller.py:119-120; self.response.ok of a None left by another thread's
\* line 97 raises AttributeError
ApicallCount(t) ==
    /\ th[t].pc = "ac_count"
    /\ apicalls' = apicalls + 1
    /\ IF response = None
       THEN UNCHANGED ok /\ Raise(t, "AttributeError")
       ELSE ok' = response_ok(response[1]) /\ Goto(t, "ac_raise")
    /\ UNCHANGED <<cfgVars, envVars, sessVars, phase, last, dry_run, request, response,
                   calls, done>>

\* the flag apicall consults (apicaller.py:121)
raise_flag == raise_option

\* apicaller.py:121-122
ApicallRaise(t) ==
    /\ th[t].pc = "ac_raise"
    /\ IF ~raise_flag THEN Goto(t, "ac_return")
       ELSE IF response = None THEN Raise(t, "AttributeError")
       ELSE IF ~response_ok(response[1]) THEN Raise(t, "HTTPError")
       ELSE Goto(t, "ac_return")
    /\ UNCHANGED <<cfgVars, envVars, sessVars, phase, last, callerVars, calls, done>>

\* an apicall that treats every download response as the file: it tests
\* filename alone at line 123
ApicallReturn_anystatus(t) ==
    /\ th[t].pc = "ac_return"
    /\ LET resp == response[1]
       IN IF Mode(th[t].op) = "download"
          THEN th' = [th EXCEPT ![t].wrote = TRUE,
                                ![t].ret = Some([st |-> resp.status, res |-> "None"]),
                                ![t].pc = "post"]
          ELSE CASE resp.body = "empty" ->
                      th' = [th EXCEPT ![t].ret = Some([st |-> resp.status, res |-> "None"]),
                                       ![t].pc = "post"]
                 [] resp.body = "json" ->
                      th' = [th EXCEPT ![t].ret = Some([st |-> resp.status, res |-> "json"]),
                                       ![t].pc = "post"]
                 [] OTHER -> Raise(t, "JSONDecodeError")
    /\ UNCHANGED <<cfgVars, envVars, sessVars, phase, last, callerVars, calls, done>>

\* apicaller.py:123-130
ApicallReturn(t) ==
    /\ th[t].pc = "ac_return"
    /\ LET resp == response[1]
       IN IF response = None THEN Raise(t, "AttributeError")
          ELSE IF Mode(th[t].op) = "download" /\ ok
          THEN th' = [th EXCEPT ![t].wrote = TRUE,
                                ![t].ret = Some([st |-> resp.status, res |-> "None"]),
                                ![t].pc = "post"]
          ELSE CASE resp.body = "empty" ->
                      th' = [th EXCEPT ![t].ret = Some([st |-> resp.status, res |-> "None"]),
                                       ![t].pc = "post"]
                 [] resp.body = "json" ->
                      th' = [th EXCEPT ![t].ret = Some([st |-> resp.status, res |-> "json"]),
                                       ![t].pc = "post"]
                 [] OTHER -> Raise(t, "JSONDecodeError")
    /\ UNCHANGED <<cfgVars, envVars, sessVars, phase, last, callerVars, calls, done>>

\* what the operation does with apicall's (st, res) before it returns:
\* add_service_account indexes res when self.ok (api.py:210-212),
\* update_service_account and update_attachment_store replace it by None
\* (api.py:238-240, 1489-1491)
Post(t) ==
    /\ th[t].pc = "post"
    /\ LET r == th[t].ret[1]
       IN CASE th[t].op = "add_service_account" /\ ok ->
                 CASE r.res = "json" ->
                        th' = [th EXCEPT ![t].ret = Some([r EXCEPT !.res = "tuple"]),
                                         ![t].pc = "unwind"]
                   [] r.res = "sentinel" -> Raise(t, "KeyError")
                   [] OTHER -> Raise(t, "TypeError")
            [] th[t].op \in {"update_service_account", "update_attachment_store"} /\ ok ->
                 th' = [th EXCEPT ![t].ret = Some([r EXCEPT !.res = "None"]),
                                  ![t].pc = "unwind"]
            [] OTHER -> Goto(t, "unwind")
    /\ UNCHANGED <<cfgVars, envVars, sessVars, phase, last, callerVars, calls, done>>

\* the exceptions of Requests, all subclasses of RequestException
RequestExceptions ==
    {"Timeout", "ConnectionError", "InvalidURL", "HTTPError", "JSONDecodeError"}

\* the status _CliApiCaller.apicall returns for the exception it caught
\* (cli.py:106-114)
cli_status(e) ==
    IF e = "Timeout" THEN CONN_TIMEOUT
    ELSE IF e = "ConnectionError" THEN CONN_ERROR
    ELSE CONN_MISC_ERROR

\* an exception of Requests is leaving ApiCaller.apicall under a _CliApiCaller
CliCatches(t) ==
    th[t].cli /\ th[t].caught = "" /\ th[t].exc \in RequestExceptions

\* _CliApiCaller.apicall (cli.py:100-115): the except clauses turn the
\* exception into (status, str(e)) and the operation's body goes on with it;
\* nothing else is assigned
CliCatch(t) ==
    /\ th[t].pc = "unwind"
    /\ CliCatches(t)
    /\ th' = [th EXCEPT ![t].caught = th[t].exc, ![t].exc = "",
                        ![t].ret = Some([st |-> cli_status(th[t].exc), res |-> "str"]),
                        ![t].pc = "post"]
    /\ UNCHANGED <<cfgVars, envVars, sessVars, phase, last, callerVars, calls, done>>

\* _exit_early (cli.py:183-207): the exit code it raises typer.Exit with,
\* 0 when it returns
exit_early(okflag) == IF ~okflag THEN BADCALL ELSE 0

\* a finally clause that leaves dry_run as it is
restored_dry_run_kept(saved, current) == current

\* api.py:65  self.apicaller.dry_run = dry_run_status, for the wrapper whose
\* local is on top of the stack
restored_dry_run(saved, current) ==
    IF saved /= <<>> THEN saved[Len(saved)] ELSE current

\* the operation ends: inside the guard, the finally clause restores dry_run
\* and, unless an exception is already on its way, GristApiInSafeMode is
\* raised (api.py:64-67), and the same happens in the wrapper around it if
\* there is one; outside the guard the result or the exception goes to the
\* caller, and a command of the front-end ends with _exit_early
Unwind(t) ==
    /\ th[t].pc = "unwind"
    /\ ~CliCatches(t)
    /\ LET guarded == th[t].saved /= <<>>
           e == IF guarded /\ th[t].exc = "" THEN "GristApiInSafeMode" ELSE th[t].exc
           rest == IF guarded THEN SubSeq(th[t].saved, 1, Len(th[t].saved) - 1) ELSE <<>>
       IN /\ dry_run' = restored_dry_run(th[t].saved, dry_run)
          /\ IF rest /= <<>>
             THEN /\ th' = [th EXCEPT ![t].saved = rest, ![t].exc = e]
                  /\ UNCHANGED done
             ELSE /\ done' = Some([th[t] EXCEPT
                                     !.pc = "done", !.exc = e, !.saved = rest,
                                     !.ret = IF e = "" THEN th[t].ret ELSE None,
                                     !.exit = IF ~th[t].cli THEN 0
                                              ELSE IF e /= "" THEN 1
                                              ELSE exit_early(ok)])
                  /\ th' = [th EXCEPT ![t] = IdleThread]
    /\ UNCHANGED <<cfgVars, envVars, sessVars, phase, last, apicalls, ok, request, response,
                   calls>>

\* the caller sets ApiCaller.dry_run (apicaller.py:27, a public attribute)
SetDryRun(b) ==
    /\ AllIdle
    /\ dry_run /= b
    /\ dry_run' = b
    /\ UNCHANGED <<cfgVars, envVars, sessVars, phase, last, apicalls, ok, request, response,
                   runVars>>

\* an open_session that drops the old Session object without closing it
OpenSession_leaks ==
    /\ AllIdle
    /\ nsessions < MaxSessions
    /\ UNCHANGED closed
    /\ session' = Some(nsessions + 1)
    /\ nsessions' = nsessions + 1
    /\ UNCHANGED <<cfgVars, envVars, phase, callerVars, runVars>>

\* ApiCaller.open_session (apicaller.py:31-35)
OpenSession ==
    /\ AllIdle
    /\ nsessions < MaxSessions
    /\ closed' = IF session /= None THEN closed \cup {session[1]} ELSE closed
    /\ session' = Some(nsessions + 1)
    /\ nsessions' = nsessions + 1
    /\ UNCHANGED <<cfgVars, envVars, phase, callerVars, runVars>>

\* ApiCaller.close_session (apicaller.py:37-41)
CloseSession ==
    /\ AllIdle
    /\ closed' = IF session /= None THEN closed \cup {session[1]} ELSE closed
    /\ session' = None
    /\ UNCHANGED <<nsessions, cfgVars, envVars, phase, callerVars, runVars>>

\* the longest API key of the two-letter alphabet
MaxKeyLen == 6

----------------------------------------------------------------------------
(* Inputs                                                                  *)

\* the (key, value) pairs a caller passes in overrides and patches
PatchItems ==
    {<<"GRIST_WORKSPACE_ID", <<" ","-","4","_","2">>>>,
     <<"GRIST_WORKSPACE_ID", <<"4","x">>>>,
     <<"GRIST_TEAM_SITE", <<"t">>>>,
     <<"GRIST_TEAM_SITE", EmptyStr>>,
     <<"foo", <<"b","a","r">>>>}

PatchKeys == {it[1] : it \in PatchItems}
PatchValues == {it[2] : it \in PatchItems}

\* the dictionaries of at most MaxPatchKeys of these pairs, the empty one included
Patches ==
    UNION {{f \in [K -> PatchValues] : \A k \in K : <<k, f[k]>> \in PatchItems} :
             K \in {S \in SUBSET PatchKeys : Cardinality(S) <= MaxPatchKeys}}

\* environment variables that get set, and what the home file may hold
EnvItems == {<<"GRIST_TEAM_SITE", <<"e">>>>, <<"foo", <<"v">>>>}
FileContents == {[GRIST_TEAM_SITE |-> <<"f">>, foo |-> <<"w">>]}

\* the config argument of GristApi(): none, the dict of test.py:180, and one
\* that update_config rejects
ApiConfigArgs ==
    {None, Some([foo |-> <<"b","a","r">>]), Some([GRIST_WORKSPACE_ID |-> <<"4","x">>])}

\* the patches applied between calls: the two flags, either way, and
\* another API key
CallPatches ==
    {[GRIST_SAFEMODE |-> Y], [GRIST_SAFEMODE |-> N],
     [GRIST_RAISE_ERROR |-> Y], [GRIST_RAISE_ERROR |-> N],
     [GRIST_API_KEY |-> <<"k","e","y","2">>]}

----------------------------------------------------------------------------
(* Specifications                                                          *)

\* ApiCaller.__init__ (apicaller.py:25-29), no operation running
NewApiCaller ==
    /\ apicalls = 0
    /\ ok = TRUE
    /\ dry_run = FALSE
    /\ request = None
    /\ response = None
    /\ session = None
    /\ nsessions = 0
    /\ closed = {}
    /\ th = [t \in Threads |-> IdleThread]
    /\ calls = 0
    /\ done = None

\* GristApi() with no home file and no environment variable set: the
\* Configurator holds the defaults
Init ==
    /\ environ = EmptyDict
    /\ home_file = [exists |-> FALSE, content |-> EmptyDict]
    /\ config = reconfig_config(EmptyDict, EmptyDict)
    /\ server = make_server(config, EmptyStr)
    /\ raise_option = (config.GRIST_RAISE_ERROR = Y)
    /\ safemode = (config.GRIST_SAFEMODE = Y)
    /\ cfg_exc = ""
    /\ phase = "live"
    /\ last = [op |-> "construct", arg |-> EmptyDict, pre |-> EmptyDict]
    /\ NewApiCaller

Next ==
    \/ \E op \in Ops : Invoke(Main, op)
    \/ GuardCheck(Main)
    \/ GuardSave(Main)
    \/ GuardSet(Main)
    \/ Funct(Main)
    \/ ApicallReset(Main)
    \/ ApicallPrepare(Main)
    \/ ApicallDryRun(Main)
    \/ ApicallSend(Main)
    \/ ApicallCount(Main)
    \/ ApicallRaise(Main)
    \/ ApicallReturn(Main)
    \/ Post(Main)
    \/ Unwind(Main)
    \/ \E b \in BOOLEAN : SetDryRun(b)
    \/ AllIdle /\ UNCHANGED last /\ \E p \in CallPatches : UpdateConfig(p)

Spec == Init /\ [][Next]_vars

\* the Configurator alone: Configurator(overrides), reconfig, update_config
\* under a changing environment and home file
InitConfig ==
    /\ environ = EmptyDict
    /\ home_file = [exists |-> FALSE, content |-> EmptyDict]
    /\ NewConfigurator
    /\ phase = "new"
    /\ last = [op |-> "none", arg |-> EmptyDict, pre |-> EmptyDict]
    /\ NewApiCaller

\* what the step just taken was: the operation, its argument, and
\* self.config as it was before
Recorded(op, arg) == last' = [op |-> op, arg |-> arg, pre |-> config]

NextConfig ==
    \/ \E ov \in Patches : Construct(ov) /\ Recorded("construct", ov)
    \/ \E ov \in Patches : Reconfig(ov) /\ Recorded("reconfig", ov)
    \/ \E patch \in Patches : UpdateConfig(patch) /\ Recorded("update_config", patch)
    \/ \E a \in ApiConfigArgs, cc \in BOOLEAN, ca \in BOOLEAN :
          /\ GristApiInit(a, cc, ca)
          /\ Recorded("GristApi", [config |-> a, custom_configurator |-> cc,
                                   custom_apicaller |-> ca])
    \/ \E it \in EnvItems : SetEnv(it[1], it[2]) /\ Recorded("environ", EmptyDict)
    \/ \E it \in EnvItems : UnsetEnv(it[1]) /\ Recorded("environ", EmptyDict)
    \/ \E c \in FileContents : WriteFile(c) /\ Recorded("file", EmptyDict)
    \/ RemoveFile /\ Recorded("file", EmptyDict)

SpecConfig == InitConfig /\ [][NextConfig]_vars

\* the API keys: every string of at most MaxKeyLen letters a or b, and one of
\* sixteen characters, whose hidden part has a two-digit length
ApiKeys ==
    UNION {[1..n -> {"a", "b"}] : n \in 0..MaxKeyLen}
    \cup {<<"0","1","2","3","4","5","6","7","8","9","a","b","c","d","e","f">>}

\* the dicts handed to config2output besides self.config: the empty one and
\* one with no API key
OutputArgs == {EmptyDict, [foo |-> <<"b","a","r">>]}

\* the output helpers alone, between update_config calls that set the key
NextOutput ==
    \/ \E k \in ApiKeys :
          /\ UpdateConfig([x \in {"GRIST_API_KEY"} |-> k])
          /\ last' = [op |-> "update_config", arg |-> k]
    \/ Apikey2Output
    \/ \E d \in OutputArgs \cup {config} : Config2Output(d)

SpecOutput == Init /\ [][NextOutput]_vars

\* the patches of a program that switches safe mode between its calls, one
\* of which update_config rejects
SwitchPatches ==
    {[GRIST_SAFEMODE |-> Y], [GRIST_SAFEMODE |-> N], [GRIST_TEAM_SITE |-> EmptyStr]}

\* a reading and a writing operation between update_config calls that
\* switch safe mode
NextSwitch ==
    \/ \E op \in {"list_workspaces", "add_workspace"} : Invoke(Main, op)
    \/ GuardCheck(Main)
    \/ GuardSave(Main)
    \/ GuardSet(Main)
    \/ Funct(Main)
    \/ ApicallReset(Main)
    \/ ApicallPrepare(Main)
    \/ ApicallDryRun(Main)
    \/ ApicallSend(Main)
    \/ ApicallCount(Main)
    \/ ApicallRaise(Main)
    \/ ApicallReturn(Main)
    \/ Post(Main)
    \/ Unwind(Main)
    \/ \E b \in BOOLEAN : SetDryRun(b)
    \/ AllIdle /\ UNCHANGED last /\ \E p \in SwitchPatches : UpdateConfig(p)

SpecSwitch == Init /\ [][NextSwitch]_vars

\* _CliConfigurator.get_config (cli.py:126-153): the static sources, one more
\* key, and the two flags forced to 'N'
cli_get_config ==
    DictUpdate(DictUpdate([GRIST_GRY_TIMEOUT |-> <<"6","0">>], get_config),
               [GRIST_RAISE_ERROR |-> N, GRIST_SAFEMODE |-> N])

\* the module-level objects of the front-end (cli.py:157-169): a
\* _CliConfigurator, a _CliApiCaller on it and the GristApi on that
InitCli ==
    /\ environ = EmptyDict
    /\ home_file = [exists |-> FALSE, content |-> EmptyDict]
    /\ config = cli_get_config
    /\ server = make_server(config, EmptyStr)
    /\ raise_option = (config.GRIST_RAISE_ERROR = Y)
    /\ safemode = (config.GRIST_SAFEMODE = Y)
    /\ cfg_exc = ""
    /\ phase = "live"
    /\ last = [op |-> "construct", arg |-> EmptyDict, pre |-> EmptyDict]
    /\ NewApiCaller

\* the operations the commands of one run call
CliOps == {"list_workspaces", "download_csv", "add_workspace"}

\* a command of the front-end: its calls of grist_api, each followed by
\* _exit_early
NextCli ==
    \/ \E op \in CliOps : CliInvoke(Main, op)
    \/ GuardCheck(Main)
    \/ Funct(Main)
    \/ ApicallReset(Main)
    \/ ApicallPrepare(Main)
    \/ ApicallDryRun(Main)
    \/ ApicallSend(Main)
    \/ ApicallCount(Main)
    \/ ApicallRaise(Main)
    \/ ApicallReturn(Main)
    \/ CliCatch(Main)
    \/ Post(Main)
    \/ Unwind(Main)

SpecCli == InitCli /\ [][NextCli]_vars

\* the operations two threads call on one shared GristApi: a writing and a
\* reading one
ThreadOps == {"add_workspace", "list_workspaces"}

\* two threads sharing one GristApi; each statement of the wrapper and of
\* apicall is a step, and the steps of the two interleave freely
NextThreads ==
    \/ \E t \in Threads, op \in ThreadOps : Invoke(t, op)
    \/ \E t \in Threads : GuardCheck(t)
    \/ \E t \in Threads : GuardSave(t)
    \/ \E t \in Threads : GuardSet(t)
    \/ \E t \in Threads : Funct(t)
    \/ \E t \in Threads : ApicallReset(t)
    \/ \E t \in Threads : ApicallPrepare(t)
    \/ \E t \in Threads : ApicallDryRun(t)
    \/ \E t \in Threads : ApicallSend(t)
    \/ \E t \in Threads : ApicallCount(t)
    \/ \E t \in Threads : ApicallRaise(t)
    \/ \E t \in Threads : ApicallReturn(t)
    \/ \E t \in Threads : Post(t)
    \/ \E t \in Threads : Unwind(t)
    \/ AllIdle /\ UNCHANGED last
       /\ \E p \in {[GRIST_SAFEMODE |-> Y], [GRIST_SAFEMODE |-> N]} : UpdateConfig(p)

SpecThreads == Init /\ [][NextThreads]_vars

\* the url derivation alone: make_server and select_params between
\* update_config calls that switch the hosting flags and the team
ServerPatches ==
    {[GRIST_SELF_MANAGED |-> Y], [GRIST_SELF_MANAGED |-> N],
     [GRIST_SELF_MANAGED_SINGLE_ORG |-> Y], [GRIST_SELF_MANAGED_SINGLE_ORG |-> N],
     [GRIST_SELF_MANAGED_SINGLE_ORG |-> <<"y">>],
     [GRIST_TEAM_SITE |-> <<"t">>], [GRIST_TEAM_SITE |-> <<"d","o","c","s">>]}
TeamArgs == {EmptyStr, <<"u">>}
DocArgs == {EmptyStr, <<"d">>}

\* the stored state of the Configurator
Stored4 == [config |-> config, server |-> server, raise_option |-> raise_option,
            safemode |-> safemode]

\* the call just made, its argument, what it returned, and the stored state
\* it started from
Returned(op, arg, res) == last' = [op |-> op, arg |-> arg, res |-> res, pre |-> Stored4]

InitServer == Init

NextServer ==
    \/ \E p \in ServerPatches :
          UpdateConfig(p) /\ Returned("update_config", p, None)
    \/ \E team \in TeamArgs :
          MakeServer(team) /\ Returned("make_server", team, make_server(config, team))
    \/ \E doc \in DocArgs, team \in TeamArgs :
          SelectParams(doc, team)
          /\ Returned("select_params", [doc |-> doc, team |-> team],
                      select_params(doc, team))

SpecServer == InitServer /\ [][NextServer]_vars

\* the session lifecycle: open_session and close_session between calls of
\* operations of the three modes, outside safe mode
SessionOps == {"list_workspaces", "download_csv", "apicall_upload_files"}

\* the session call just made and the sessions as they were before it
SessionStep(op) ==
    last' = [op |-> op,
             pre |-> [session |-> session, closed |-> closed,
                      nsessions |-> nsessions, calls |-> calls]]

NextSession ==
    \/ \E op \in SessionOps : Invoke(Main, op)
    \/ Funct(Main)
    \/ ApicallReset(Main)
    \/ ApicallPrepare(Main)
    \/ ApicallDryRun(Main)
    \/ ApicallSend(Main)
    \/ ApicallCount(Main)
    \/ ApicallRaise(Main)
    \/ ApicallReturn(Main)
    \/ Post(Main)
    \/ Unwind(Main)
    \/ OpenSession /\ SessionStep("open_session")
    \/ CloseSession /\ SessionStep("close_session")

SpecSession == Init /\ [][NextSession]_vars

----------------------------------------------------------------------------
(* Properties of the safe-mode guard and of the dispatcher, under Spec     *)

Finished == done /= None
Outcome == done[1]

\* the statements of apicall from the send on (apicaller.py:118-130)
SendPcs == {"ac_send", "ac_count", "ac_raise", "ac_return"}

\* the statuses of HTTP responses
HttpStatuses == 100..599

\* C1: while safe mode is active, a guarded operation whose wrapped body got
\* its dry-run answer from the dispatcher ends by raising GristApiInSafeMode,
\* whichever operation it is.
C1_SafeModeRaises ==
    (Finished /\ Outcome.guard /\ Outcome.dry) => Outcome.exc = "GristApiInSafeMode"

\* C2: while safe mode is active, a guarded operation never reaches the send:
\* from line 61 to the finally clause dry_run is True and the dispatcher is
\* never at or past the send, nothing is sent, apicalls keeps the value it had
\* when the operation was called, and once apicall has reset the diagnostics
\* no response is recorded, up to and including the end of the operation.
C2_GuardedNeverSends ==
    /\ \A t \in Threads :
         th[t].guard =>
           /\ dry_run
           /\ th[t].pc \notin SendPcs
           /\ th[t].sent = 0 /\ ~th[t].got
           /\ apicalls = th[t].apicalls0
           /\ th[t].pc \in {"ac_prepare", "ac_dry", "post", "unwind"} => response = None
    /\ (Finished /\ Outcome.guard) =>
           /\ Outcome.sent = 0 /\ ~Outcome.got
           /\ apicalls = Outcome.apicalls0
           /\ response = None

\* C2 happens: after an earlier call that was sent, a guarded operation ran in
\* safe mode through the dispatcher and ended with GristApiInSafeMode
C2_Witness ==
    /\ Finished /\ Outcome.guard /\ Outcome.dry
    /\ Outcome.exc = "GristApiInSafeMode"
    /\ Outcome.apicalls0 > 0

\* C3: with dry_run enabled the dispatcher is never at or past the send, in
\* any mode; a call that took the dry-run exit sent nothing, wrote no file,
\* left apicalls alone, and leaves its own newly prepared request recorded and
\* the recorded response None.
C3_DryRunPreparesOnly ==
    /\ \A t \in Threads :
         /\ (th[t].pc \in SendPcs) => ~dry_run
         /\ th[t].dry =>
              /\ th[t].sent = 0 /\ ~th[t].got /\ ~th[t].wrote
              /\ apicalls = th[t].apicalls0
              /\ request /= None /\ request[1].call = th[t].call
              /\ request[1].mode = Mode(th[t].op)
              /\ response = None
    /\ (Finished /\ Outcome.dry) =>
         /\ Outcome.sent = 0 /\ ~Outcome.got /\ ~Outcome.wrote
         /\ apicalls = Outcome.apicalls0
         /\ request /= None /\ request[1].call = Outcome.call
         /\ request[1].mode = Mode(Outcome.op)
         /\ response = None

\* C3 happens: outside safe mode, with dry_run set by the caller, a download
\* ran dry and returned, after an earlier call that was sent
C3_Witness ==
    /\ Finished /\ Outcome.dry /\ ~Outcome.guard
    /\ Mode(Outcome.op) = "download"
    /\ Outcome.exc = ""
    /\ Outcome.apicalls0 > 0

C9_RaiseFlagPerCall ==
    (Finished /\ Outcome.got /\ ~response_ok(response[1])) =>
        IF Outcome.flag0
        THEN Outcome.exc = "HTTPError"
        ELSE /\ Outcome.exc = ""
             /\ Outcome.ret /= None
             /\ Outcome.ret[1].st = response[1].status

\* C10: after a call whose send raised (the transport delivered no response)
\* ok is False, whatever the calls before it left, the first call included.
C10_TransportFailureNotOk ==
    (Finished /\ Outcome.exc \in {"Timeout", "ConnectionError"}) => ~ok

----------------------------------------------------------------------------
(* Properties of the Configurator, under SpecConfig                        *)

\* the keys of the home file, none if there is no file
FileKeys == IF home_file.exists THEN DOMAIN home_file.content ELSE {}

\* the value the precedence rule gives key k under the overrides ov: the
\* override, else the environment variable, else the file, else the default
Effective(k, ov) ==
    IF k \in DOMAIN ov THEN ov[k]
    ELSE IF k \in DOMAIN environ THEN environ[k]
    ELSE IF k \in FileKeys THEN home_file.content[k]
    ELSE PYGRISTER_CONFIG[k]

\* the Configurator call just made stored a configuration
Stored ==
    \/ last.op \in {"reconfig", "update_config"}
    \/ last.op = "construct" /\ phase = "live"

\* C5: right after construction or reconfig the keys are those of the
\* defaults, the home file and the overrides, and every key holds the value
\* of its highest layer: override, then environment, then file, then default.
C5_Precedence ==
    (Stored /\ last.op \in {"construct", "reconfig"}) =>
        /\ DOMAIN config = (DOMAIN PYGRISTER_CONFIG) \cup FileKeys \cup (DOMAIN last.arg)
        /\ \A k \in DOMAIN config : config[k] = Effective(k, last.arg)

\* C5 happens: file, environment and overrides are all present; one key is
\* in the file and the environment only, another is overridden
C5_Witness ==
    /\ last.op = "reconfig"
    /\ home_file.exists /\ "GRIST_TEAM_SITE" \in DOMAIN home_file.content
    /\ "GRIST_TEAM_SITE" \in DOMAIN environ
    /\ "GRIST_TEAM_SITE" \notin DOMAIN last.arg
    /\ "foo" \in DOMAIN last.arg
    /\ config.GRIST_TEAM_SITE = environ.GRIST_TEAM_SITE
    /\ config.foo = last.arg.foo

\* C6: update_config(patch) leaves in self.config the keys it had plus the
\* keys of patch; the keys of patch hold the patch's values and every other
\* key the value it had before, whatever the file and the environment now say.
C6_UpdateIsAPatch ==
    last.op = "update_config" =>
        /\ DOMAIN config = (DOMAIN last.pre) \cup (DOMAIN last.arg)
        /\ \A k \in DOMAIN last.arg : config[k] = last.arg[k]
        /\ \A k \in (DOMAIN last.pre) \ (DOMAIN last.arg) : config[k] = last.pre[k]

\* C6 happens: the environment now names another team site than the
\* configuration holds, and an update_config of another key kept the old one
C6_Witness ==
    /\ last.op = "update_config"
    /\ DOMAIN last.arg = {"foo"}
    /\ "GRIST_TEAM_SITE" \in DOMAIN environ
    /\ config.GRIST_TEAM_SITE /= environ.GRIST_TEAM_SITE
    /\ config.GRIST_TEAM_SITE = last.pre.GRIST_TEAM_SITE

\* what a Configurator freshly constructed with the overrides ov holds:
\* __init__ starts from an empty dict and calls reconfig
Fresh(ov) == reconfig_config(EmptyDict, ov)

\* C7: reconfig(overrides) leaves the configuration a Configurator freshly
\* constructed with the same overrides would have: nothing of what
\* self.config held before survives, and when the call does not raise
\* the derived fields are those of the fresh object.
C7_ReconfigIsFresh ==
    last.op = "reconfig" =>
        /\ config = Fresh(last.arg)
        /\ \A k \in (DOMAIN last.pre) \ (DOMAIN config) :
              k \notin (DOMAIN PYGRISTER_CONFIG) \cup FileKeys \cup (DOMAIN last.arg)
        /\ cfg_exc = "" =>
              /\ server = make_server(Fresh(last.arg), EmptyStr)
              /\ raise_option = (Fresh(last.arg).GRIST_RAISE_ERROR = Y)
              /\ safemode = (Fresh(last.arg).GRIST_SAFEMODE = Y)

\* C7 happens: a key added at runtime and a value changed at runtime are both
\* gone after the reconfig
C7_Witness ==
    /\ last.op = "reconfig"
    /\ "foo" \in DOMAIN last.pre /\ "foo" \notin DOMAIN config
    /\ last.pre.GRIST_WORKSPACE_ID /= PYGRISTER_CONFIG.GRIST_WORKSPACE_ID
    /\ config.GRIST_WORKSPACE_ID = PYGRISTER_CONFIG.GRIST_WORKSPACE_ID

\* the configuration the call just made had to validate: for a constructor
\* that raised, the one it built before raising
Validated == IF last.op = "construct" /\ phase = "new" THEN Fresh(last.arg) ELSE config

\* C8: construction, reconfig and update_config raise GristApiNotConfigured
\* exactly when, after the merge, some value is the empty string or
\* GRIST_WORKSPACE_ID is not what int() accepts; otherwise they do not raise.
C8_RaisesIffInvalid ==
    last.op \in {"construct", "reconfig", "update_config"} =>
        (cfg_exc = "GristApiNotConfigured"
           <=> \/ \E k \in DOMAIN Validated : Len(Validated[k]) = 0
               \/ ~IntCastable(Validated.GRIST_WORKSPACE_ID))

\* C8 happens: an update_config with a workspace id that is not an integer,
\* and no empty value anywhere, raised
C8_Witness ==
    /\ last.op = "update_config"
    /\ cfg_exc = "GristApiNotConfigured"
    /\ \A k \in DOMAIN config : config[k] /= EmptyStr
    /\ "GRIST_WORKSPACE_ID" \in DOMAIN last.arg

----------------------------------------------------------------------------
(* Properties of one apicall: its result, its request, its diagnostics     *)

\* C11: once a call has received a response and recorded it, ok is the
\* success of that response's status, from then on to the end of the
\* operation and whether the call returned or raised: False after HTTPError,
\* True after a successful call whatever ok was before.
C11_OkIsResponseOk ==
    /\ \A t \in Threads :
         (th[t].got /\ th[t].pc \in {"ac_raise", "ac_return", "post", "unwind"}) =>
            ok = response_ok(response[1])
    /\ (Finished /\ Outcome.got) =>
         /\ ok = response_ok(response[1])
         /\ Outcome.exc = "HTTPError" => ~ok

\* C11 happens: a call raised HTTPError and turned ok from True to False
C11_Witness ==
    /\ Finished /\ Outcome.got
    /\ Outcome.exc = "HTTPError"
    /\ Outcome.ok0 /\ ~ok

\* the method the mode of the operation op calls for
ModeMethod(op) ==
    CASE Mode(op) = "download" -> "GET"
      [] Mode(op) = "upload" -> "POST"
      [] OTHER -> Method(op)

\* C12: the request a call prepares, which is the one it sends, has the
\* method GET in download mode and POST in upload mode whatever method the
\* caller asked for, and the caller's method in ordinary mode.
C12_ModeForcesMethod ==
    /\ \A t \in Threads :
         (th[t].preps > 0 /\ request /= None) =>
            /\ request[1].call = th[t].call
            /\ request[1].method = ModeMethod(th[t].op)
    /\ (Finished /\ Outcome.preps > 0 /\ request /= None) =>
            /\ request[1].call = Outcome.call
            /\ request[1].method = ModeMethod(Outcome.op)

\* C12 happens: apicall was called with method PUT and a file path, and
\* the request that got a response was a GET
C12_Witness ==
    /\ Finished /\ Outcome.got
    /\ Outcome.op = "apicall_filename"
    /\ Method(Outcome.op) = "PUT"
    /\ request[1].method = "GET"

\* C13: in ordinary mode a call that got a response and did not raise
\* HTTPError returns (status, None) for an empty body and (status, raw text)
\* for a body that is not JSON, without raising. Stated for the operations
\* that hand apicall's result on as it is.
C13_EmptyAndNonJsonBody ==
    (/\ Finished /\ Outcome.got
     /\ Outcome.op \in {"list_workspaces", "add_workspace"}
     /\ Outcome.exc /= "HTTPError") =>
        /\ response[1].body = "empty" =>
              Outcome.ret = Some([st |-> response[1].status, res |-> "None"])
        /\ response[1].body = "text" =>
              /\ Outcome.exc = ""
              /\ Outcome.ret = Some([st |-> response[1].status, res |-> "text"])

\* C14, as the spec states it: a download that returns, returns the body
\* None for every response status, and the file was written exactly when the
\* status is a success.
C14_DownloadBodyAlwaysNone ==
    (Finished /\ Outcome.got /\ Mode(Outcome.op) = "download" /\ Outcome.exc = "") =>
        /\ Outcome.ret[1].res = "None"
        /\ Outcome.wrote <=> response_ok(response[1])

\* C14, as the code has it: in download mode the file is written exactly
\* when the status is a success, and then the call returns (status, None);
\* after an error status no file is written and a call that returns, returns
\* the body decoded as in ordinary mode: None only when the body is empty.
C14_DownloadBodyNoneOnSuccess ==
    /\ \A t \in Threads : th[t].wrote =>
         /\ Mode(th[t].op) = "download"
         /\ response_ok(response[1])
    /\ (Finished /\ Outcome.got /\ Mode(Outcome.op) = "download") =>
         IF response_ok(response[1])
         THEN /\ Outcome.wrote
              /\ Outcome.exc = ""
              /\ Outcome.ret = Some([st |-> response[1].status, res |-> "None"])
         ELSE /\ ~Outcome.wrote
              /\ Outcome.exc = "" =>
                   /\ Outcome.ret[1].st = response[1].status
                   /\ Outcome.ret[1].res =
                        (IF response[1].body = "empty" THEN "None" ELSE "json")

\* C14 happens: with raise-on-error off a download got an error status with a
\* JSON body, wrote no file and returned the decoded body
C14_Witness ==
    /\ Finished /\ Outcome.got /\ Mode(Outcome.op) = "download"
    /\ ~Outcome.flag0
    /\ ~response_ok(response[1])
    /\ Outcome.exc = ""
    /\ Outcome.ret[1].res = "json"
    /\ ~Outcome.wrote

----------------------------------------------------------------------------
(* Properties of the url derivation, under SpecServer                      *)

\* the team a make_server call with the argument team_name is about
TeamOf(team_name) == IF team_name /= EmptyStr THEN team_name ELSE config.GRIST_TEAM_SITE

\* the three urls of the spec for the team tm
SaasUrl(tm) ==
    config.GRIST_SERVER_PROTOCOL \o tm \o <<".">> \o config.GRIST_API_SERVER
    \o <<"/">> \o config.GRIST_API_ROOT
SingleOrgUrl == config.GRIST_SELF_MANAGED_HOME \o <<"/">> \o config.GRIST_API_ROOT
MultiOrgUrl(tm) ==
    config.GRIST_SELF_MANAGED_HOME \o <<"/","o","/">> \o tm \o <<"/">> \o config.GRIST_API_ROOT

\* C15: make_server returns the SaaS url when GRIST_SELF_MANAGED is 'N';
\* otherwise the single-org url, the same for every team configured or given,
\* when GRIST_SELF_MANAGED_SINGLE_ORG is 'Y', and the multi-org url with the
\* team when it is anything else.
C15_OneFormulaPerFlags ==
    last.op = "make_server" =>
        /\ config.GRIST_SELF_MANAGED = N => last.res = SaasUrl(TeamOf(last.arg))
        /\ (config.GRIST_SELF_MANAGED /= N /\ config.GRIST_SELF_MANAGED_SINGLE_ORG = Y) =>
              last.res = SingleOrgUrl
        /\ (config.GRIST_SELF_MANAGED /= N /\ config.GRIST_SELF_MANAGED_SINGLE_ORG /= Y) =>
              last.res = MultiOrgUrl(TeamOf(last.arg))

\* C15 happens: self-managed, single-org, a team is configured and another
\* one is given, and neither is in the url
C15_Witness ==
    /\ last.op = "make_server"
    /\ config.GRIST_SELF_MANAGED = Y /\ config.GRIST_SELF_MANAGED_SINGLE_ORG = Y
    /\ config.GRIST_TEAM_SITE = <<"t">>
    /\ last.arg = <<"u">>
    /\ last.res = PYGRISTER_CONFIG.GRIST_SELF_MANAGED_HOME \o <<"/","a","p","i">>

\* C16: make_server and select_params leave config, server, raise_option and
\* safemode as they were, with or without a team override; make_server
\* returns the url of the configuration as it stands, so the same for the
\* same configuration; and select_params without a team returns the cached
\* url, which is the one of the configured team, whatever team the calls
\* before it were given.
C16_ServerIsPure ==
    last.op \in {"make_server", "select_params"} =>
        /\ Stored4 = last.pre
        /\ last.op = "make_server" => last.res = make_server(config, last.arg)
        /\ last.op = "select_params" =>
              /\ last.res.server = make_server(config, last.arg.team)
              /\ last.arg.team = EmptyStr =>
                    /\ last.res.server = server
                    /\ last.res.server = make_server(config, EmptyStr)

\* C16 happens: select_params without a team, on the multi-org flags where
\* the team is part of the url, returned the url of the configured team
C16_Witness ==
    /\ last.op = "select_params"
    /\ last.arg.team = EmptyStr
    /\ config.GRIST_SELF_MANAGED = Y /\ config.GRIST_SELF_MANAGED_SINGLE_ORG = N
    /\ last.res.server = MultiOrgUrl(config.GRIST_TEAM_SITE)

----------------------------------------------------------------------------
(* Properties of one apicall, continued                                    *)

\* C17: the request a call prepares, in every mode, has the Authorization
\* header 'Bearer ' + the GRIST_API_KEY the configuration held when the
\* operation was called, also when the caller passed an Authorization header
\* of its own.
C17_BearerOfCurrentKey ==
    /\ \A t \in Threads :
         (th[t].preps > 0 /\ request /= None) =>
            request[1].headers.Authorization = Bearer \o th[t].key0
    /\ (Finished /\ Outcome.preps > 0 /\ request /= None) =>
            request[1].headers.Authorization = Bearer \o Outcome.key0

\* C17 happens: after update_config changed the key, an upload passed its own
\* Authorization header and the prepared request carries the new key
C17_Witness ==
    /\ Finished /\ Outcome.preps > 0 /\ request /= None
    /\ Outcome.op = "apicall_upload_files"
    /\ Headers(Outcome.op)[1].Authorization /= Bearer \o Outcome.key0
    /\ Outcome.key0 /= PYGRISTER_CONFIG.GRIST_API_KEY
    /\ request[1].headers.Authorization = Bearer \o Outcome.key0

\* the diagnostics are of the call numbered c, or empty
OnlyOfCall(c) ==
    /\ request /= None => request[1].call = c
    /\ response /= None => response[1].call = c

\* C18: from the moment apicall has reset them, and at its end, the recorded
\* request and response are of the running call or None, never of an earlier
\* one; after a send that raised, the request is the call's own and the
\* response None; after a preparation that raised both are None.
C18_DiagnosticsOfLastCall ==
    /\ \A t \in Threads :
         (th[t].pc \in {"ac_prepare", "ac_dry"} \cup SendPcs \/ th[t].preps > 0) =>
            OnlyOfCall(th[t].call)
    /\ (Finished /\ Outcome.preps > 0) =>
         /\ OnlyOfCall(Outcome.call)
         /\ Outcome.exc \in {"Timeout", "ConnectionError"} =>
               /\ request /= None /\ request[1].call = Outcome.call
               /\ response = None
         /\ Outcome.exc = "InvalidURL" => (request = None /\ response = None)

\* C18 happens: an earlier call got a response, and the call after it failed
\* in the transport
C18_Witness ==
    /\ Finished /\ Outcome.preps > 0
    /\ Outcome.exc \in {"Timeout", "ConnectionError"}
    /\ Outcome.apicalls0 > 0
    /\ request[1].call = Outcome.call
    /\ response = None

----------------------------------------------------------------------------
(* Properties of the session lifecycle, under SpecSession                  *)

\* the Session objects closed by a call that found the session s
ClosedWith(s, before) == IF s /= None THEN before \cup {s[1]} ELSE before

\* C19: close_session leaves no session open; with none open it changes
\* nothing, so a second close changes nothing either, and with one open it
\* closes that one. open_session installs a Session object that did not
\* exist before, and closes the one that was open, if any. A call made while
\* a session is open prepares and sends with that very object, which is not
\* closed; a call made with none open uses an object created during the call.
C19_SessionLifecycle ==
    /\ last.op = "close_session" =>
         /\ session = None
         /\ closed = ClosedWith(last.pre.session, last.pre.closed)
         /\ calls = last.pre.calls => nsessions = last.pre.nsessions
    /\ last.op = "open_session" =>
         /\ session /= None
         /\ session[1] > last.pre.nsessions
         /\ session[1] \notin closed
         /\ closed = ClosedWith(last.pre.session, last.pre.closed)
         /\ last.pre.session /= None => session[1] /= last.pre.session[1]
    /\ \A t \in Threads :
         th[t].preps > 0 =>
            /\ session = th[t].sess0
            /\ IF session /= None
               THEN th[t].sess = session[1] /\ th[t].sess \notin closed
               ELSE th[t].sess > th[t].nsessions0
    /\ (Finished /\ Outcome.preps > 0) =>
            IF Outcome.sess0 /= None
            THEN Outcome.sess = Outcome.sess0[1]
            ELSE Outcome.sess > Outcome.nsessions0

\* C19 happens: open_session was called while a session was open, and the
\* call after it got its response through the new session
C19_Witness ==
    /\ last.op = "open_session"
    /\ last.pre.session /= None
    /\ Finished /\ Outcome.got
    /\ session /= None
    /\ Outcome.sess = session[1]
    /\ last.pre.session[1] \in closed

----------------------------------------------------------------------------
(* Properties of one apicall, under Spec: no retry                         *)

\* C20: an operation prepares at most one request and performs at most one
\* send, and apicalls grows by at most one; a send that raised ends the
\* operation with that transport exception, and an error status with
\* raise-on-error on ends it with HTTPError, each after exactly one send.
C20_AtMostOneSend ==
    /\ \A t \in Threads :
         /\ th[t].sent <= 1 /\ th[t].preps <= 1
         /\ th[t].exc \in {"Timeout", "ConnectionError", "HTTPError"} => th[t].pc = "unwind"
    /\ Finished =>
         /\ Outcome.sent <= 1 /\ Outcome.preps <= 1
         /\ apicalls <= Outcome.apicalls0 + 1
         /\ (Outcome.sent = 1 /\ ~Outcome.got) =>
               Outcome.exc \in {"Timeout", "ConnectionError"}
         /\ Outcome.exc \in {"Timeout", "ConnectionError", "HTTPError"} =>
               Outcome.sent = 1 /\ Outcome.preps = 1

\* C20 happens: the one send of a call timed out and the call ended with
\* the timeout
C20_Witness ==
    /\ Finished
    /\ Outcome.exc = "Timeout"
    /\ Outcome.sent = 1 /\ Outcome.preps = 1 /\ ~Outcome.got

----------------------------------------------------------------------------
(* What a rejected update leaves behind, under SpecConfig                  *)

\* C27: a constructed Configurator always holds a configuration in which
\* every value is non-empty and GRIST_WORKSPACE_ID is what int() accepts,
\* also after a reconfig or an update_config that raised.
C27_ConfigAlwaysValid ==
    phase = "live" =>
        /\ \A k \in DOMAIN config : config[k] /= EmptyStr
        /\ IntCastable(config.GRIST_WORKSPACE_ID)

\* C28: in a constructed Configurator the derived fields are those of the
\* configuration map: safemode and raise_option are the two flags compared
\* with 'Y' and server is what make_server() builds, also after a reconfig
\* or an update_config that raised.
C28_DerivedFollowConfig ==
    phase = "live" =>
        /\ safemode = (config.GRIST_SAFEMODE = Y)
        /\ raise_option = (config.GRIST_RAISE_ERROR = Y)
        /\ server = make_server(config, EmptyStr)

----------------------------------------------------------------------------
(* Properties of the output helpers, under SpecOutput                      *)

\* key occurs in text as a run of consecutive characters
Contains(text, key) ==
    \E i \in 1..(Len(text) - Len(key) + 1) : SubSeq(text, i, i + Len(key) - 1) = key

\* the number a string of decimal digits denotes
RECURSIVE DecimalValue(_)
DecimalValue(s) ==
    IF s = <<>> THEN 0
    ELSE 10 * DecimalValue(SubSeq(s, 1, Len(s) - 1))
         + (CHOOSE d \in 0..9 : str_int(d) = <<s[Len(s)]>>)

\* shown is key with all but its first two and last two characters replaced
\* by <n>, n the number of characters left out
Masked(key, shown) ==
    /\ Len(shown) >= 7
    /\ SubSeq(shown, 1, 2) = SubSeq(key, 1, 2)
    /\ shown[3] = "<"
    /\ \A i \in 4..(Len(shown) - 3) : shown[i] \in Digits
    /\ DecimalValue(SubSeq(shown, 4, Len(shown) - 3)) = Len(key) - 4
    /\ shown[Len(shown) - 2] = ">"
    /\ SubSeq(shown, Len(shown) - 1, Len(shown)) = SubSeq(key, Len(key) - 1, Len(key))

\* the API key of a dict, the empty string if it has none
KeyOf(d) == IF "GRIST_API_KEY" \in DOMAIN d THEN d.GRIST_API_KEY ELSE EmptyStr

----------------------------------------------------------------------------
(* GristApi() on a Configurator that is already in use, under SpecConfig   *)

\* C22: GristApi(config=..., custom_configurator=c) raises
\* GristApiNotConfigured and leaves c.config as it was.
C22_ConfigWithConfiguratorRaises ==
    (/\ last.op = "GristApi"
     /\ last.arg.config /= None
     /\ last.arg.custom_configurator) =>
        /\ cfg_exc = "GristApiNotConfigured"
        /\ config = last.pre

----------------------------------------------------------------------------
(* The guard and the operations it covers, under Spec                      *)

\* C26: while safe mode is active no operation that changes remote state
\* sends a request: every one of them goes through check_safemode.
C26_SafeModeBlocksMutating ==
    /\ \A t \in Threads :
         (th[t].safe0 /\ Mutating(th[t].op)) => th[t].sent = 0
    /\ (Finished /\ Outcome.safe0 /\ Mutating(Outcome.op)) =>
         /\ Outcome.sent = 0
         /\ Outcome.guard

\* C25: when a guarded call made in safe mode ends, dry_run is what it was
\* before the call, whether the wrapped operation returned or raised; with
\* upload_attachment, whose body calls the guarded upload_attachments, the
\* inner wrapper hands back the True the outer one had set and the outer
\* wrapper the value from before the call.
C25_DryRunRestored ==
    [][/\ (done' /= done /\ done' /= None /\ done'[1].guard) =>
             dry_run' = done'[1].dry0
       /\ \A t \in Threads :
             (th[t].pc = "unwind" /\ th'[t].pc = "unwind"
              /\ Len(th'[t].saved) < Len(th[t].saved)) => dry_run' = TRUE]_vars

\* C25 happens: upload_attachment in safe mode, dry_run False before it, the
\* files could not be opened, so both wrappers were left by an exception,
\* and dry_run is False again
C25_Witness ==
    /\ Finished
    /\ Outcome.op = "upload_attachment" /\ Outcome.nest = 1
    /\ Outcome.guard
    /\ Outcome.exc = "OSError"
    /\ ~Outcome.dry0
    /\ ~dry_run

----------------------------------------------------------------------------
(* Switching safe mode between calls, under SpecSwitch                     *)

\* C24: an operation that is not decorated, and any operation called while
\* GRIST_SAFEMODE is not 'Y', passes the guard untouched: its body runs once,
\* dry_run stays as the caller left it, and what the body returns or raises
\* is what the caller gets; GRIST_SAFEMODE as update_config left it decides
\* for the very next call, in both directions.
C24_PassThroughAndSwitch ==
    /\ \A t \in Threads :
         (th[t].pc /= "idle" /\ (~Guarded(th[t].op) \/ ~th[t].safe0)) =>
            /\ ~th[t].guard
            /\ dry_run = th[t].dry0
            /\ th[t].preps <= 1
    /\ (Finished /\ (~Guarded(Outcome.op) \/ ~Outcome.safe0)) =>
         /\ ~Outcome.guard
         /\ Outcome.exc /= "GristApiInSafeMode"
         /\ Outcome.preps <= 1
    /\ (Finished /\ Guarded(Outcome.op) /\ Outcome.safe0) =>
         /\ Outcome.guard
         /\ Outcome.sent = 0

----------------------------------------------------------------------------
(* The dispatcher of the command-line front-end, under SpecCli             *)

\* the exceptions of a call that got no response
TransportFailures == {"Timeout", "ConnectionError", "InvalidURL"}

\* C23: with _CliApiCaller a call whose transport fails returns 522 for a
\* timeout, 523 for a connection error and 520 for any other failure, and
\* is reported as failed: ok is False when _exit_early reads it and the
\* command exits with BADCALL, whatever the calls before it did.
C23_CliTransportFailureIsBadCall ==
    (Finished /\ Outcome.cli /\ Outcome.caught \in TransportFailures) =>
        /\ Outcome.exc = ""
        /\ Outcome.ret /= None
        /\ Outcome.ret[1].st = (CASE Outcome.caught = "Timeout" -> 522
                                  [] Outcome.caught = "ConnectionError" -> 523
                                  [] OTHER -> 520)
        /\ ~ok
        /\ Outcome.exit = BADCALL

----------------------------------------------------------------------------
(* Two threads on one GristApi, under SpecThreads                          *)

\* C29 as stated: with two threads calling guarded operations in safe mode
\* on one GristApi, under every interleaving no call sends a request, and
\* once both are over dry_run is what it was before either started.
C29_ConcurrentGuardHolds ==
    /\ \A t \in Threads : th[t].guard => th[t].sent = 0
    /\ (Finished /\ AllIdle /\ Outcome.guard) =>
         /\ Outcome.sent = 0
         /\ dry_run = Outcome.base0

\* C29, amended: a guarded call made in safe mode that does not overlap with
\* another call on the same GristApi sends nothing and leaves dry_run as it
\* was before; overlapping or not, it ends with an exception, never with a
\* result. For overlapping calls nothing more holds: the save/set/restore
\* steps of the two wrappers interleave, a call can send its request and
\* dry_run can be left True.
C29_GuardHoldsWithoutOverlap ==
    /\ \A t \in Threads : (th[t].guard /\ ~th[t].overlap) => th[t].sent = 0
    /\ (Finished /\ Outcome.guard) => Outcome.exc /= ""
    /\ (Finished /\ Outcome.guard /\ ~Outcome.overlap) =>
         /\ Outcome.sent = 0
         /\ dry_run = Outcome.base0

\* C29 happens: two guarded calls overlapped in safe mode; the one that
\* finished last had its request sent, ended with GristApiInSafeMode all the
\* same, and left dry_run True although it was False before the two
C29_Witness ==
    /\ Finished /\ AllIdle
    /\ Outcome.guard /\ Outcome.overlap
    /\ Outcome.sent = 1
    /\ Outcome.exc = "GristApiInSafeMode"
    /\ ~Outcome.base0 /\ dry_run

\* the recorded request is of one call and the recorded response of another
MixedPair ==
    /\ request /= None /\ response /= None
    /\ request[1].call /= response[1].call

\* C30: calls made one after the other never leave a mixed pair: while a
\* call that overlaps with no other runs, and when it is over, the recorded
\* request and response are its own or None, and ok is the ok of the
\* recorded response. (That overlapping calls can leave one is the witness.)
C30_NoMixedPairWithoutOverlap ==
    /\ \A t \in Threads :
         (~th[t].overlap /\ th[t].preps > 0) =>
            /\ ~MixedPair
            /\ OnlyOfCall(th[t].call)
    /\ (Finished /\ ~Outcome.overlap /\ Outcome.preps > 0) =>
         /\ ~MixedPair
         /\ OnlyOfCall(Outcome.call)
         /\ response /= None => ok = response_ok(response[1])

\* C30 happens: two calls overlapped and both are over; the recorded request
\* is of the call that finished last, the recorded response and ok are of
\* the other one
C30_Witness ==
    /\ Finished /\ AllIdle
    /\ Outcome.overlap
    /\ MixedPair
    /\ request[1].call = Outcome.call
    /\ response[1].call /= Outcome.call
    /\ ok = response_ok(response[1])
    /\ Outcome.exc \in {"Timeout", "ConnectionError"}

====
